---- MODULE Spec2Model ----
(***************************************************************************)
(* uplite: a single-process HTTP file server (src/uplite.js).              *)
(*                                                                         *)
(* Strings are sequences of one-character strings, so that path.basename,  *)
(* path.extname, the filename sanitiser and the storage-name template are  *)
(* computed character by character, as Node computes them.  A filesystem   *)
(* path is a sequence of components (each a string in the above sense).    *)
(* The filesystem is a function from the existing paths to the file each   *)
(* names (its inode number), its modification time and, as a history of    *)
(* the model, the millisecond stamp of the storage name under which the    *)
(* path was created.                                                       *)
(***************************************************************************)
EXTENDS Integers, Sequences, FiniteSets, TLC

\* fs                 the filesystem: existing path -> [ino, mtime, stamp]
\* now                Date.now(), in milliseconds
\* kernel             the clock the filesystem stamps files with, in
\*                    milliseconds: it is coarser than Date.now() and lags it
\* req                per slot, the request in flight and its handler's locals
\* resp               the response sent by the step just taken
\* load               the load of the requests received so far: 1 for
\*                    every request, and 1 more for every file that an
\*                    upload stores after its first
\* succeeded          the storage names of the uploads answered 302 so far
\* allowedExtensions  the --extensions setting
VARIABLES fs, now, kernel, req, resp, load, succeeded, allowedExtensions

vars == <<fs, now, kernel, req, resp, load, succeeded, allowedExtensions>>

(***************************************************************************)
(* Bounds of the model.                                                    *)
(***************************************************************************)
NumSlots == 2
MaxLoad == 3
MaxTime == 1

(***************************************************************************)
(* Settings (uplite.js 14-34).  The model runs the server with             *)
(* --max-files 2 --max-size 1 and with --extensions either absent or "t".  *)
(***************************************************************************)
maxFiles == 2
maxSize == 1
username == <<"a", "d", "m">>
password == <<"p", "w">>
uploadDir == << <<"s">>, <<"u">> >>

ExtensionSettings == { <<>>, << <<"t">> >> }

(***************************************************************************)
(* String helpers.                                                         *)
(***************************************************************************)
UpperCase == <<"A","B","C","D","E","F","G","H","I","J","K","L","M",
               "N","O","P","Q","R","S","T","U","V","W","X","Y","Z">>
LowerCase == <<"a","b","c","d","e","f","g","h","i","j","k","l","m",
               "n","o","p","q","r","s","t","u","v","w","x","y","z">>
Digits == <<"0","1","2","3","4","5","6","7","8","9">>

Range(s) == { s[i] : i \in DOMAIN s }

LastIndexOf(s, c) ==
    IF \E i \in DOMAIN s : s[i] = c
    THEN CHOOSE i \in DOMAIN s : s[i] = c /\ \A j \in DOMAIN s : s[j] = c => j <= i
    ELSE 0

IndexOf(s, c) ==
    IF \E i \in DOMAIN s : s[i] = c
    THEN CHOOSE i \in DOMAIN s : s[i] = c /\ \A j \in DOMAIN s : s[j] = c => j >= i
    ELSE 0

\* Characters outside ASCII are written by their code point.  The cased
\* letters outside ASCII that the model's alphabet holds, and what
\* toLowerCase makes of each: U+00C9 becomes U+00E9, and U+0130 becomes the
\* two characters "i" U+0307.
UpperCaseOther == <<"U+00C9", "U+0130">>
LowerCaseOther == << <<"U+00E9">>, <<"i", "U+0307">> >>

\* the characters of the model's strings
Alphabet ==
    Range(UpperCase) \cup Range(LowerCase) \cup Range(Digits)
    \cup Range(UpperCaseOther) \cup {"U+00E9", "U+0307"}
    \cup {"_", "-", ".", "/", " ", ","}

\* String.prototype.toLowerCase of one character of Alphabet: a string, of
\* two characters for U+0130
ToLowerChar(c) ==
    IF c \in Range(UpperCase) THEN <<LowerCase[IndexOf(UpperCase, c)]>>
    ELSE IF c \in Range(UpperCaseOther) THEN LowerCaseOther[IndexOf(UpperCaseOther, c)]
    ELSE <<c>>

\* String.prototype.toLowerCase of a string over Alphabet
RECURSIVE ToLowerCase(_)
ToLowerCase(s) ==
    IF s = <<>> THEN <<>> ELSE ToLowerChar(Head(s)) \o ToLowerCase(Tail(s))

\* String.prototype.replace(c, ""): removes the first occurrence of c
RemoveFirst(s, c) ==
    LET i == IndexOf(s, c)
    IN  IF i = 0 THEN s ELSE SubSeq(s, 1, i - 1) \o SubSeq(s, i + 1, Len(s))

\* Array.prototype.join(sep) of an array of strings
RECURSIVE JoinStrings(_, _)
JoinStrings(list, sep) ==
    IF list = <<>> THEN <<>>
    ELSE IF Len(list) = 1 THEN list[1]
    ELSE list[1] \o sep \o JoinStrings(Tail(list), sep)

\* `${n}` for a non-negative integer n
RECURSIVE NumToString(_)
NumToString(n) ==
    IF n < 10 THEN <<Digits[n + 1]>>
    ELSE NumToString(n \div 10) \o <<Digits[(n % 10) + 1]>>

(***************************************************************************)
(* Node's path module (posix).                                             *)
(***************************************************************************)
RECURSIVE StripTrailingSlashes(_)
StripTrailingSlashes(s) ==
    IF s # <<>> /\ s[Len(s)] = "/"
    THEN StripTrailingSlashes(SubSeq(s, 1, Len(s) - 1))
    ELSE s

\* path.basename(p): trailing separators are ignored, then everything up to
\* and including the last separator is dropped.
Basename(p) ==
    LET t == StripTrailingSlashes(p)
    IN  SubSeq(t, LastIndexOf(t, "/") + 1, Len(t))

\* path.extname(p): from the last "." of the base name; "" when there is no
\* dot, when the only dot is the first character, or for "..".
Extname(p) ==
    LET b == Basename(p)
        i == LastIndexOf(b, ".")
    IN  IF i = 0 \/ i = 1 \/ b = <<".", ".">> THEN <<>>
        ELSE SubSeq(b, i, Len(b))

\* The components of a string path, split at "/".
RECURSIVE Components(_)
Components(s) ==
    LET i == IndexOf(s, "/")
    IN  IF i = 0 THEN <<s>>
        ELSE <<SubSeq(s, 1, i - 1)>> \o Components(SubSeq(s, i + 1, Len(s)))

\* path.normalize on an absolute path: "" and "." are dropped, ".." pops
\* (and stays at the root).
RECURSIVE Resolve(_, _)
Resolve(dir, comps) ==
    IF comps = <<>> THEN dir
    ELSE LET c == Head(comps)
             d == IF c = <<>> \/ c = <<".">> THEN dir
                  ELSE IF c = <<".", ".">>
                       THEN (IF dir = <<>> THEN dir ELSE SubSeq(dir, 1, Len(dir) - 1))
                       ELSE Append(dir, c)
         IN  Resolve(d, Tail(comps))

\* path.join(dir, name)
Join(dir, name) == Resolve(dir, Components(name))

(***************************************************************************)
(* The filesystem.                                                         *)
(***************************************************************************)
IsPrefix(p, q) == Len(p) <= Len(q) /\ SubSeq(q, 1, Len(p)) = p

\* fs.pathExists(p)
PathExists(p) == p \in DOMAIN fs

\* The names fs.readdir(dir) returns: the entries directly inside dir.
Entries(dir) ==
    { q[Len(q)] : q \in { x \in DOMAIN fs : Len(x) = Len(dir) + 1 /\ IsPrefix(dir, x) } }

\* The paths directly inside directory p.
Children(p) == { x \in DOMAIN fs : Len(x) = Len(p) + 1 /\ IsPrefix(p, x) }

\* The filesystem after the unlink or rmdir of the one path p.
Without(p) == [q \in DOMAIN fs \ {p} |-> fs[q]]

\* The files that write streams hold open; an unlinked file lives on
\* while it is held open.
HeldInodes ==
    UNION { { req[r].cur[i].ino :
                i \in { k \in DOMAIN req[r].cur : req[r].cur[k].st = "writing" } } :
            r \in DOMAIN req }

\* The number of a new file: one that no path names and no stream holds.
FreshInode ==
    LET used == { fs[q].ino : q \in DOMAIN fs } \cup HeldInodes
    IN  CHOOSE n \in 1 .. Cardinality(used) + 1 :
           n \notin used /\ \A m \in 1 .. n - 1 : m \in used

\* The filesystem after fs.createWriteStream(p) has opened p, at time t of
\* the filesystem's clock, for a part named at time timestamp: p is created
\* when absent and truncated when present.
Opened(p, t, timestamp) ==
    [q \in DOMAIN fs \cup {p} |->
        IF q = p
        THEN IF p \in DOMAIN fs
             THEN [fs[p] EXCEPT !.mtime = t]
             ELSE [ino |-> FreshInode, mtime |-> t, stamp |-> timestamp]
        ELSE fs[q]]

\* The filesystem after the last write, at time t of the filesystem's
\* clock, to the open file ino: the
\* write reaches the file that was opened, whatever its path names by now.
Written(ino, t) ==
    [q \in DOMAIN fs |-> IF fs[q].ino = ino THEN [fs[q] EXCEPT !.mtime = t] ELSE fs[q]]

(***************************************************************************)
(* auth (uplite.js 55-62).  basicAuth(req) is modelled by its result: NoCredentials  *)
(* when the header is absent or malformed, else a record of name and pass. *)
(***************************************************************************)
NoCredentials == [name |-> <<>>, pass |-> <<>>, present |-> FALSE]

Credentials ==
    { NoCredentials }
    \cup { [name |-> n, pass |-> p, present |-> TRUE] :
             n \in { username, <<"e">> }, p \in { password, <<"x">> } }

\* TRUE when auth calls next(), FALSE when it answers 401.
Auth(credentials) ==
    ~(~credentials.present \/ credentials.name # username
                           \/ credentials.pass # password)

(***************************************************************************)
(* multer configuration (uplite.js 65-98).                                 *)
(***************************************************************************)
SafeChars == Range(UpperCase) \cup Range(LowerCase) \cup Range(Digits) \cup {"_", "-", "."}

\* originalname.replace(/[^a-zA-Z0-9_\-.]/g, "_").replace(/\s+/g, "_"): after
\* the first replacement no whitespace is left for the second.
CleanFileName(originalname) ==
    [i \in DOMAIN originalname |->
        IF originalname[i] \in SafeChars THEN originalname[i] ELSE "_"]

\* a storage.filename without the timestamp prefix
StorageNameNoTimestamp(timestamp, originalname) == CleanFileName(originalname)

\* storage.filename: `${timestamp}-${cleanFileName}`
StorageName(timestamp, originalname) ==
    NumToString(timestamp) \o <<"-">> \o CleanFileName(originalname)

\* fileFilter: TRUE when the part is accepted
FileFilter(originalname) ==
    IF Len(allowedExtensions) = 0 THEN TRUE
    ELSE LET fileExtension == RemoveFirst(ToLowerCase(Extname(originalname)), ".")
         IN  fileExtension \in Range(allowedExtensions)

(***************************************************************************)
(* The listing's sort (uplite.js 151-154): Array.prototype.sort is stable; *)
(* the comparator b.time - a.time puts the larger time first.              *)
(***************************************************************************)
\* the comparator with its operands exchanged: oldest first
CompareAscending(a, b) == a.time - b.time

Compare(a, b) == b.time - a.time

\* insertion of x into a sorted sequence, after every element it does not
\* have to precede
RECURSIVE Insert(_, _)
Insert(x, s) ==
    IF s = <<>> THEN <<x>>
    ELSE IF Compare(Head(s), x) <= 0 THEN <<Head(s)>> \o Insert(x, Tail(s))
         ELSE <<x>> \o s

RECURSIVE Sort(_)
Sort(s) ==
    IF s = <<>> THEN <<>>
    ELSE Insert(s[Len(s)], Sort(SubSeq(s, 1, Len(s) - 1)))

Filter(s) == SelectSeq(s, LAMBDA d : d.st = "ok")

SortedFiles(fileDetails) ==
    LET sorted == Sort(Filter(fileDetails))
    IN  [i \in DOMAIN sorted |-> sorted[i].name]

(***************************************************************************)
(* Requests.  A slot holds one request in flight; resp is the response     *)
(* sent by the step just taken (Idle when that step sent none), with what  *)
(* its handler saw and did.  A request arrives in the step of its first    *)
(* filesystem access: the middleware and the handler code before the first *)
(* await touch no shared state.  The text of a response is msg followed by *)
(* msgList.                                                                *)
(***************************************************************************)
Slots == 1 .. NumSlots

Routes == {"list", "upload", "info", "confirm", "delete", "files"}

\* client-supplied :filename values, after URL decoding
FileNames ==
    { <<"0", "-", "a", "_", "b", ".", "T">>,
      <<".", ".", "/", "0", "-", "a", "_", "b", ".", "T">>,
      <<".", ".">> }

\* the file parts a body may carry: originalname and byte length
Parts ==
    { [originalname |-> <<"a", " ", "b", ".", "T">>, size |-> maxSize],
      [originalname |-> <<"c", ".", "x">>, size |-> maxSize + 1] }

\* parsed: express.urlencoded and express.json have passed the request on;
\* todo, expanded: the paths fs.remove has still to remove, and the
\* directories among them whose entries it has read; recreated: an upload
\* has created filePath again since the delete found or made it absent
Idle ==
    [route |-> "idle", pc |-> "idle", creds |-> NoCredentials, parsed |-> FALSE,
     status |-> 0, challenge |-> FALSE, msg |-> "", msgList |-> <<>>,
     fileName |-> <<>>, filePath |-> <<>>, exists |-> FALSE, entry |-> FALSE,
     files |-> <<>>, sortedFiles |-> <<>>, known |-> {},
     uploaded |-> <<>>, cur |-> <<>>, mutated |-> FALSE, gone |-> FALSE,
     todo |-> {}, expanded |-> {}, recreated |-> FALSE]

\* a request that the body parsers have passed on
Request(route, credentials) ==
    [Idle EXCEPT !.route = route, !.creds = credentials, !.parsed = TRUE]

\* the handlers with a :filename: fileName and filePath
NamedRequest(route, credentials, filename) ==
    [Request(route, credentials) EXCEPT
        !.fileName = Basename(filename),
        !.filePath = Join(uploadDir, Basename(filename))]

Init ==
    /\ fs = [q \in { <<uploadDir[1]>>, uploadDir } |->
                [ino |-> Len(q), mtime |-> 0, stamp |-> 0]]
    /\ now = 0
    /\ kernel = 0
    /\ req = [r \in Slots |-> Idle]
    /\ resp = Idle
    /\ load = 0
    /\ succeeded = {}
    /\ allowedExtensions \in ExtensionSettings

\* the load bound admits a request of this weight, and r is the slot it
\* takes: the first free one (which slot holds a request makes no difference)
Admits(r, weight) ==
    /\ req[r].pc = "idle"
    /\ \A q \in Slots : q < r => req[q].pc # "idle"
    /\ load + weight <= MaxLoad

Free(r) == Admits(r, 1)

\* a response ends the request and frees the slot
Send(r, rec, code, text) ==
    /\ req' = [req EXCEPT ![r] = Idle]
    /\ resp' = [rec EXCEPT !.pc = "done", !.status = code, !.msg = text]

Goto(r, rec, label) ==
    /\ req' = [req EXCEPT ![r] = [rec EXCEPT !.pc = label]]
    /\ resp' = Idle

\* an awaited filesystem call has settled: the response that its outcome
\* decides is sent by the continuation, in a later step
Settle(r, rec, code, text) ==
    Goto(r, [rec EXCEPT !.status = code, !.msg = text], "respond")

\* the continuation sends the response that was decided
Respond(r) ==
    /\ req[r].pc = "respond"
    /\ Send(r, req[r], req[r].status, req[r].msg)
    /\ UNCHANGED <<fs, now, kernel, load, succeeded, allowedExtensions>>

\* Date.now() advances
Tick ==
    /\ now < MaxTime
    /\ now' = now + 1
    /\ resp' = Idle
    /\ UNCHANGED <<fs, kernel, req, load, succeeded, allowedExtensions>>

\* the filesystem's clock catches up with Date.now(), wholly or in part
KernelTick ==
    /\ \E t \in kernel + 1 .. now : kernel' = t
    /\ resp' = Idle
    /\ UNCHANGED <<fs, now, req, load, succeeded, allowedExtensions>>

\* express.urlencoded and express.json (uplite.js 105-106) come before
\* every route: a request whose body they fail to parse, whatever its route
\* and credentials, goes to the global error handler (238-241), which
\* answers 500 with the parser's message; neither auth nor a handler runs
BodyRejected(r) ==
    /\ Free(r)
    /\ \E route \in Routes, credentials \in Credentials :
          Send(r, [Request(route, credentials) EXCEPT !.parsed = FALSE],
               500, "body parser error")
    /\ load' = load + 1
    /\ UNCHANGED <<fs, now, kernel, succeeded, allowedExtensions>>

\* auth answers 401 with the challenge header; no handler runs
AuthDenied(r) ==
    /\ Free(r)
    /\ \E route \in Routes, credentials \in Credentials :
          /\ ~Auth(credentials)
          /\ Send(r, [Request(route, credentials) EXCEPT !.challenge = TRUE],
                  401, "Access Denied")
    /\ load' = load + 1
    /\ UNCHANGED <<fs, now, kernel, succeeded, allowedExtensions>>

(***************************************************************************)
(* GET / (uplite.js 134-161)                                               *)
(***************************************************************************)
\* the sequences that enumerate a set, each element once
Enumerations(S) ==
    { f \in [1 .. Cardinality(S) -> S] : \A x \in S : \E i \in DOMAIN f : f[i] = x }

\* await fs.readdir(uploadDir): the order of the names is the filesystem's
ListReaddir(r) ==
    /\ Free(r)
    /\ \E credentials \in Credentials :
          /\ Auth(credentials)
          /\ LET rec == [Request("list", credentials) EXCEPT !.known = succeeded]
             IN  IF ~PathExists(uploadDir)
                 THEN Settle(r, rec, 500, "Internal Server Error")
                 ELSE \E files \in Enumerations(Entries(uploadDir)) :
                        Goto(r, [rec EXCEPT !.files =
                                   [i \in DOMAIN files |->
                                      [name |-> files[i], st |-> "pathExists", time |-> 0]]],
                             "map")
    /\ load' = load + 1
    /\ UNCHANGED <<fs, now, kernel, succeeded, allowedExtensions>>

\* files.map starts the callback of every entry; each is at its pathExists
\* or at its stat until it has returned, and they resume in any order.
Pending(rec) == { i \in DOMAIN rec.files : rec.files[i].st \in {"pathExists", "stat"} }

\* await fs.pathExists(filePath) of one entry
ListPathExists(r) ==
    /\ req[r].route = "list" /\ req[r].pc = "map"
    /\ \E i \in Pending(req[r]) :
           /\ req[r].files[i].st = "pathExists"
           /\ Goto(r, [req[r] EXCEPT !.files[i].st =
                          IF PathExists(Join(uploadDir, req[r].files[i].name))
                          THEN "stat" ELSE "null"], "map")
    /\ UNCHANGED <<fs, now, kernel, load, succeeded, allowedExtensions>>

\* await fs.stat(filePath) of one entry; a rejection rejects Promise.all and
\* the handler goes on to its catch block
ListStat(r) ==
    /\ req[r].route = "list" /\ req[r].pc = "map"
    /\ \E i \in Pending(req[r]) :
         LET filePath == Join(uploadDir, req[r].files[i].name)
         IN
           /\ req[r].files[i].st = "stat"
           /\ IF PathExists(filePath)
              THEN Goto(r, [req[r] EXCEPT !.files[i].st = "ok",
                                          !.files[i].time = fs[filePath].mtime],
                        "map")
              ELSE Settle(r, req[r], 500, "Internal Server Error")
    /\ UNCHANGED <<fs, now, kernel, load, succeeded, allowedExtensions>>

\* the catch block: res.status(500).send
ListCatch(r) ==
    /\ req[r].route = "list"
    /\ Respond(r)

\* Promise.all has resolved: filter, sort, render
ListRender(r) ==
    /\ req[r].route = "list" /\ req[r].pc = "map"
    /\ Pending(req[r]) = {}
    /\ Send(r, [req[r] EXCEPT !.sortedFiles = SortedFiles(req[r].files)], 200, "index")
    /\ UNCHANGED <<fs, now, kernel, load, succeeded, allowedExtensions>>

(***************************************************************************)
(* POST /upload (uplite.js 163-174), with multer's upload.array("file",    *)
(* maxFiles) in front of the handler (65-98) and the global error handler  *)
(* (238-241) behind it.                                                    *)
(***************************************************************************)
UploadStart(r) ==
    /\ Free(r)
    /\ \E credentials \in Credentials :
          /\ Auth(credentials)
          /\ Goto(r, Request("upload", credentials), "parts")
    /\ load' = load + 1
    /\ UNCHANGED <<fs, now, kernel, succeeded, allowedExtensions>>

\* s without its i-th element
RemoveAt(s, i) == SubSeq(s, 1, i - 1) \o SubSeq(s, i + 1, Len(s))

\* multer moves on after an error: while writes are pending it waits for
\* them, then it unlinks the files the request has stored, and when none is
\* left the error goes to next(err), in a later step
Proceed(r, rec) ==
    IF rec.cur = <<>> /\ rec.uploaded = <<>>
    THEN Settle(r, rec, 500, rec.msg)
    ELSE Goto(r, rec, "abort")

\* multer's abortWithError: the first error of a request is the one reported
AbortWithError(rec, message, list) ==
    IF rec.pc = "abort" THEN rec
    ELSE [rec EXCEPT !.pc = "abort", !.msg = message, !.msgList = list]

\* the parser meets the next file part, whether or not the files of the
\* parts before it are written: the count limit of upload.array, fileFilter,
\* and storage.filename, which reads the clock.  A part larger than
\* limits.fileSize is stored up to the limit and makes multer abort with
\* LIMIT_FILE_SIZE.  The bodies of the model end with the part that makes
\* multer abort.
UploadPart(r) ==
    /\ req[r].route = "upload" /\ req[r].pc = "parts"
    /\ \E part \in Parts :
          IF Len(req[r].uploaded) + Len(req[r].cur) >= maxFiles
          THEN /\ Proceed(r, AbortWithError(req[r], "Unexpected field", <<>>))
               /\ UNCHANGED load
          ELSE IF ~FileFilter(part.originalname)
          THEN /\ Proceed(r, AbortWithError(req[r],
                                "Invalid file type. Allowed extensions are: ",
                                JoinStrings(allowedExtensions, <<",", " ">>)))
               /\ UNCHANGED load
          ELSE LET named == [req[r] EXCEPT !.cur = Append(@,
                                [originalname |-> part.originalname,
                                 filename |-> StorageName(now, part.originalname),
                                 timestamp |-> now,
                                 size |-> part.size,
                                 st |-> "opening", ino |-> 0, clash |-> -1])]
                   weight == IF Len(req[r].uploaded) + Len(req[r].cur) = 0 THEN 0 ELSE 1
               IN  /\ load + weight <= MaxLoad
                   /\ load' = load + weight
                   /\ IF part.size > maxSize
                      THEN Proceed(r, AbortWithError(named, "File too large", <<>>))
                      ELSE Goto(r, named, "parts")
    /\ UNCHANGED <<fs, now, kernel, succeeded, allowedExtensions>>

\* the write stream of a part opens its file; clash records the stamp of
\* the file that was there.  Without uploadDir the stream fails and multer
\* aborts.
UploadOpen(r) ==
    /\ req[r].route = "upload"
    /\ \E i \in DOMAIN req[r].cur :
          LET filePath == Append(uploadDir, req[r].cur[i].filename)
          IN  /\ req[r].cur[i].st = "opening"
              /\ IF ~PathExists(uploadDir)
                 THEN /\ UNCHANGED fs
                      /\ Proceed(r, AbortWithError(
                                      [req[r] EXCEPT !.cur = RemoveAt(@, i)],
                                      "ENOENT", <<>>))
                 ELSE /\ fs' = Opened(filePath, kernel, req[r].cur[i].timestamp)
                      /\ req' = [q \in Slots |->
                                   IF q = r
                                   THEN [req[r] EXCEPT
                                           !.cur[i].st = "writing",
                                           !.cur[i].ino = fs'[filePath].ino,
                                           !.cur[i].clash = IF PathExists(filePath)
                                                            THEN fs[filePath].stamp
                                                            ELSE -1,
                                           !.mutated = TRUE]
                                   ELSE IF /\ req[q].route = "delete"
                                           /\ req[q].pc = "redirect"
                                           /\ req[q].filePath = filePath
                                           /\ ~PathExists(filePath)
                                   THEN [req[q] EXCEPT !.recreated = TRUE]
                                   ELSE req[q]]
                      /\ resp' = Idle
    /\ UNCHANGED <<now, kernel, load, succeeded, allowedExtensions>>

\* the stream of a part ends: the last write reaches the file that was
\* opened, and the file joins the files the request has stored
UploadWrite(r) ==
    /\ req[r].route = "upload"
    /\ \E i \in DOMAIN req[r].cur :
          /\ req[r].cur[i].st = "writing"
          /\ fs' = Written(req[r].cur[i].ino, kernel)
          /\ Goto(r, [req[r] EXCEPT !.uploaded = Append(@, req[r].cur[i]),
                                    !.cur = RemoveAt(@, i)], req[r].pc)
    /\ UNCHANGED <<now, kernel, load, succeeded, allowedExtensions>>

\* multer's removeUploadedFiles, one fs.unlink at a time in the order the
\* files were stored: the path is unlinked, whatever file it names by now,
\* and a path that is gone is passed over
UploadRemove(r) ==
    /\ req[r].route = "upload" /\ req[r].pc = "abort"
    /\ req[r].cur = <<>> /\ req[r].uploaded # <<>>
    /\ LET filePath == Append(uploadDir, req[r].uploaded[1].filename)
       IN  /\ fs' = IF PathExists(filePath) THEN Without(filePath) ELSE fs
           /\ Proceed(r, [req[r] EXCEPT !.uploaded = Tail(@),
                                        !.mutated = @ \/ fs' # fs])
    /\ UNCHANGED <<now, kernel, load, succeeded, allowedExtensions>>

\* next(err) of multer reaches the global error handler, which answers 500
\* with the message of the error: msg followed by msgList
UploadError(r) ==
    /\ req[r].route = "upload"
    /\ Respond(r)

\* the body has ended and every file is written: the route handler runs
UploadEnd(r) ==
    /\ req[r].route = "upload" /\ req[r].pc = "parts" /\ req[r].cur = <<>>
    /\ IF Len(req[r].uploaded) = 0
       THEN /\ Send(r, req[r], 400, "No files were uploaded.")
            /\ UNCHANGED succeeded
       ELSE /\ Send(r, req[r], 302, "/")
            /\ succeeded' = succeeded \cup
                   { req[r].uploaded[i].filename : i \in DOMAIN req[r].uploaded }
    /\ UNCHANGED <<fs, now, kernel, load, allowedExtensions>>

(***************************************************************************)
(* GET /info/:filename (uplite.js 176-200)                                 *)
(***************************************************************************)
\* what await fs.pathExists(filePath) finds; entry records whether uploadDir
\* has an entry called fileName at that moment
Checked(rec) ==
    [rec EXCEPT !.exists = PathExists(rec.filePath),
                !.entry = PathExists(uploadDir) /\ rec.fileName \in Entries(uploadDir)]

InfoPathExists(r) ==
    /\ Free(r)
    /\ \E credentials \in Credentials, filename \in FileNames :
          /\ Auth(credentials)
          /\ LET rec == Checked(NamedRequest("info", credentials, filename))
             IN  IF ~rec.exists
                 THEN Settle(r, rec, 404, "File not found.")
                 ELSE Goto(r, rec, "stat")
    /\ load' = load + 1
    /\ UNCHANGED <<fs, now, kernel, succeeded, allowedExtensions>>

InfoStat(r) ==
    /\ req[r].route = "info" /\ req[r].pc = "stat"
    /\ IF PathExists(req[r].filePath)
       THEN Settle(r, req[r], 200, "info")
       ELSE Settle(r, req[r], 500, "Internal Server Error")
    /\ UNCHANGED <<fs, now, kernel, load, succeeded, allowedExtensions>>

\* the continuation: the 404, the info page, or the 500 of the catch block
InfoRespond(r) ==
    /\ req[r].route = "info"
    /\ Respond(r)

(***************************************************************************)
(* GET /delete/:filename (uplite.js 202-215)                               *)
(***************************************************************************)
ConfirmPathExists(r) ==
    /\ Free(r)
    /\ \E credentials \in Credentials, filename \in FileNames :
          /\ Auth(credentials)
          /\ LET rec == Checked(NamedRequest("confirm", credentials, filename))
             IN  IF ~rec.exists
                 THEN Settle(r, rec, 404, "File not found.")
                 ELSE Settle(r, rec, 200, "confirm-delete")
    /\ load' = load + 1
    /\ UNCHANGED <<fs, now, kernel, succeeded, allowedExtensions>>

\* the continuation: the 404 or the confirmation page
ConfirmRespond(r) ==
    /\ req[r].route = "confirm"
    /\ Respond(r)

(***************************************************************************)
(* POST /delete/:filename (uplite.js 217-233)                              *)
(***************************************************************************)
\* await fs.pathExists(filePath): the else branch warns and falls through
\* to the redirect, which a later step sends
DeletePathExists(r) ==
    /\ Free(r)
    /\ \E credentials \in Credentials, filename \in FileNames :
          /\ Auth(credentials)
          /\ LET rec == Checked(NamedRequest("delete", credentials, filename))
             IN  IF rec.exists
                 THEN Goto(r, [rec EXCEPT !.todo = {rec.filePath}], "remove")
                 ELSE Goto(r, rec, "redirect")
    /\ load' = load + 1
    /\ UNCHANGED <<fs, now, kernel, succeeded, allowedExtensions>>

\* a removal that rejects with ENOENT when the path is gone, as fs.unlink does
UnlinkRejects(p) == ~PathExists(p)

\* fs.remove of fs-extra does not reject when the path is gone
RemoveRejects(p) == FALSE

\* the paths fs.remove can turn to next: those with no path of todo below
Ready(rec) ==
    { q \in rec.todo : \A x \in rec.todo : IsPrefix(q, x) => x = q }

\* the removal of path q has ended; the last one ends fs.remove, and the
\* handler goes on to the redirect
Removal(r, rec, q) ==
    LET after == [rec EXCEPT !.todo = @ \ {q}, !.mutated = @ \/ fs' # fs]
    IN  Goto(r, after, IF after.todo = {} THEN "redirect" ELSE "remove")

\* await fs.remove(filePath), one filesystem call at a time: a path that is
\* gone is passed over, a file or an empty directory is removed, and a
\* directory with entries has them read and removed, in any order, before
\* it is removed itself.  When entries have appeared in a directory since
\* its entries were read, the removal either starts over on it or rejects
\* with ENOTEMPTY, as the fs-extra and Node versions in use decide, and the
\* handler goes on to its catch block.  gone records that filePath had vanished since
\* the check.
DeleteRemove(r) ==
    /\ req[r].route = "delete" /\ req[r].pc = "remove"
    /\ \E q \in Ready(req[r]) :
          IF RemoveRejects(q)
          THEN /\ Settle(r, req[r], 500, "Internal Server Error")
               /\ UNCHANGED fs
          ELSE IF ~PathExists(q)
          THEN /\ UNCHANGED fs
               /\ Removal(r, [req[r] EXCEPT !.gone = @ \/ q = req[r].filePath], q)
          ELSE IF Children(q) = {}
          THEN /\ fs' = Without(q)
               /\ Removal(r, req[r], q)
          ELSE /\ UNCHANGED fs
               /\ \/ Goto(r, [req[r] EXCEPT !.todo = @ \cup Children(q),
                                             !.expanded = @ \cup {q}], "remove")
                  \/ /\ q \in req[r].expanded
                     /\ Settle(r, req[r], 500, "Internal Server Error")
    /\ UNCHANGED <<now, kernel, load, succeeded, allowedExtensions>>

\* the catch block: res.status(500).send
DeleteCatch(r) ==
    /\ req[r].route = "delete"
    /\ Respond(r)

\* res.redirect("/"), in the continuation of the await
DeleteRedirect(r) ==
    /\ req[r].route = "delete" /\ req[r].pc = "redirect"
    /\ Send(r, req[r], 302, "/")
    /\ UNCHANGED <<fs, now, kernel, load, succeeded, allowedExtensions>>

(***************************************************************************)
(* /files (uplite.js 235): express.static and serveIndex only read.  A     *)
(* path with a ".." component is refused by express.static, which falls    *)
(* through, and then by serveIndex, which passes a "Forbidden" error to    *)
(* next: the global error handler (238-241) answers 500 with its message.  *)
(* A path that does not exist falls through both, to the 404 of express.   *)
(***************************************************************************)
FilesServe(r) ==
    /\ Free(r)
    /\ \E credentials \in Credentials, filename \in FileNames :
          /\ Auth(credentials)
          /\ LET rec == Request("files", credentials)
             IN  IF <<".", ".">> \in Range(Components(filename))
                 THEN Send(r, rec, 500, "Forbidden")
                 ELSE IF PathExists(Join(uploadDir, filename))
                 THEN Send(r, rec, 200, "file")
                 ELSE Send(r, rec, 404, "Not Found")
    /\ load' = load + 1
    /\ UNCHANGED <<fs, now, kernel, succeeded, allowedExtensions>>

Next ==
    \/ Tick
    \/ KernelTick
    \/ \E r \in Slots : BodyRejected(r)
    \/ \E r \in Slots : AuthDenied(r)
    \/ \E r \in Slots : ListReaddir(r)
    \/ \E r \in Slots : ListPathExists(r)
    \/ \E r \in Slots : ListStat(r)
    \/ \E r \in Slots : ListCatch(r)
    \/ \E r \in Slots : ListRender(r)
    \/ \E r \in Slots : UploadStart(r)
    \/ \E r \in Slots : UploadPart(r)
    \/ \E r \in Slots : UploadOpen(r)
    \/ \E r \in Slots : UploadWrite(r)
    \/ \E r \in Slots : UploadRemove(r)
    \/ \E r \in Slots : UploadError(r)
    \/ \E r \in Slots : UploadEnd(r)
    \/ \E r \in Slots : InfoPathExists(r)
    \/ \E r \in Slots : InfoStat(r)
    \/ \E r \in Slots : InfoRespond(r)
    \/ \E r \in Slots : ConfirmPathExists(r)
    \/ \E r \in Slots : ConfirmRespond(r)
    \/ \E r \in Slots : DeletePathExists(r)
    \/ \E r \in Slots : DeleteRemove(r)
    \/ \E r \in Slots : DeleteRedirect(r)
    \/ \E r \in Slots : DeleteCatch(r)
    \/ \E r \in Slots : FilesServe(r)

Spec == Init /\ [][Next]_vars

(***************************************************************************)
(* Properties.                                                             *)
(***************************************************************************)
\* every request record of the state: those in flight and the response
Records == { req[r] : r \in Slots } \cup { resp }

CredentialsMatch(c) == c.present /\ c.name = username /\ c.pass = password

\* the request passed the body parsers and auth, and its handler ran
Handled(rec) == rec.parsed /\ CredentialsMatch(rec.creds)

InsideUploadDir(p) == Len(p) = Len(uploadDir) + 1 /\ IsPrefix(uploadDir, p)

\* the millisecond timestamp a storage name starts with
RECURSIVE ParseInt(_)
ParseInt(s) ==
    IF s = <<>> THEN 0
    ELSE 10 * ParseInt(SubSeq(s, 1, Len(s) - 1)) + (IndexOf(Digits, s[Len(s)]) - 1)

NameTimestamp(name) == ParseInt(SubSeq(name, 1, IndexOf(name, "-") - 1))

\* the file detail of a listed name, and its position in readdir's order
Detail(rec, x) == rec.files[CHOOSE i \in DOMAIN rec.files : rec.files[i].name = x]

Enumerated(rec, x) == CHOOSE i \in DOMAIN rec.files : rec.files[i].name = x

\* C1: a request whose credentials are absent or wrong never reaches a
\* handler: it is answered 401 with the WWW-Authenticate challenge and no
\* step taken for it changes the filesystem, whatever else is in flight.
C1_Unauthorized ==
    /\ \A r \in Slots : req[r].route # "idle" => CredentialsMatch(req[r].creds)
    /\ (resp.route # "idle" /\ ~CredentialsMatch(resp.creds)) =>
          /\ resp.status = 401
          /\ resp.challenge
          /\ ~resp.mutated

\* C2: the path that the handlers of GET /info, GET /delete and POST /delete
\* check, stat or remove is an entry directly inside uploadDir, for every :filename.
C2_PathInsideUploadDir ==
    \A rec \in Records :
        (rec.route \in {"info", "confirm", "delete"} /\ Handled(rec))
            => InsideUploadDir(rec.filePath)

\* C3: with a non-empty allow-list, an upload with a part whose extension is
\* not allowed is answered 400 with the allowed list in the message, and no
\* file of the request is left in uploadDir.
C3_RejectedExtensionIs400 ==
    (resp.route = "upload" /\ Len(allowedExtensions) > 0
        /\ resp.msg = "Invalid file type. Allowed extensions are: ") =>
       /\ resp.status = 400
       /\ resp.msgList = JoinStrings(allowedExtensions, <<",", " ">>)
       /\ resp.uploaded = <<>> /\ resp.cur = <<>>

\* C4: an upload with more than maxFiles parts, or with a part larger than
\* maxSize, is answered 400 with a message that states the limit, never 302
\* and never a 500.
C4_LimitIs400 ==
    (resp.route = "upload" /\ resp.msg \in {"Unexpected field", "File too large"}) =>
       resp.status = 400

\* C5 as claimed: an upload answered 302 with N accepted parts has stored them
\* under N pairwise distinct names and has overwritten no existing file.
C5_DistinctAndNoOverwrite ==
    (resp.route = "upload" /\ resp.status = 302) =>
       /\ \A i, j \in DOMAIN resp.uploaded :
             i # j => resp.uploaded[i].filename # resp.uploaded[j].filename
       /\ \A i \in DOMAIN resp.uploaded : resp.uploaded[i].clash = -1

\* the parts a request has stored or is writing
StoredParts(rec) == Range(rec.uploaded) \cup Range(rec.cur)

AllStoredParts == UNION { StoredParts(rec) : rec \in { x \in Records : x.route = "upload" } }

\* C5 as amended: two parts, of one upload or of two, get the same storage
\* name only when they were named in the same millisecond and have the same
\* sanitised name, and a part overwrites an existing entry only when that
\* entry was created for a part named in the same millisecond.
C5_CollideOnlyInSameMillisecond ==
    /\ \A p, q \in AllStoredParts :
          p.filename = q.filename =>
             /\ p.timestamp = q.timestamp
             /\ CleanFileName(p.originalname) = CleanFileName(q.originalname)
    /\ \A p \in AllStoredParts : p.clash # -1 => p.clash = p.timestamp

\* C5 witness: an upload answered 302 stored two parts under distinct
\* names while another upload was writing a part of the same original name.
C5_Witness ==
    /\ resp.route = "upload" /\ resp.status = 302
    /\ Len(resp.uploaded) = 2
    /\ resp.uploaded[1].filename # resp.uploaded[2].filename
    /\ \E r \in Slots :
          /\ req[r].route = "upload"
          /\ \E i \in DOMAIN req[r].cur :
                /\ req[r].cur[i].st = "writing"
                /\ req[r].cur[i].originalname = resp.uploaded[1].originalname

\* C6 as claimed: in a listing, a file stored by an upload that had succeeded
\* when the listing was requested comes before every such file whose name
\* carries an earlier millisecond timestamp.
C6_NewestNameFirst ==
    (resp.route = "list" /\ resp.status = 200) =>
       \A i, j \in DOMAIN resp.sortedFiles :
          (/\ resp.sortedFiles[i] \in resp.known
           /\ resp.sortedFiles[j] \in resp.known
           /\ NameTimestamp(resp.sortedFiles[i]) > NameTimestamp(resp.sortedFiles[j]))
          => i < j

\* C6 as amended: a listing holds exactly the entries whose stat succeeded,
\* ordered by the modification time stat returned, latest first, and entries
\* of equal modification time keep the order of readdir.
C6_SortedByModificationTime ==
    (resp.route = "list" /\ resp.status = 200) =>
       /\ Range(resp.sortedFiles) =
             { resp.files[k].name : k \in { n \in DOMAIN resp.files : resp.files[n].st = "ok" } }
       /\ Len(resp.sortedFiles) = Cardinality(Range(resp.sortedFiles))
       /\ \A i, j \in DOMAIN resp.sortedFiles :
             i < j =>
                LET a == Detail(resp, resp.sortedFiles[i])
                    b == Detail(resp, resp.sortedFiles[j])
                IN  \/ a.time > b.time
                    \/ /\ a.time = b.time
                       /\ Enumerated(resp, a.name) < Enumerated(resp, b.name)

\* C6 witness: a listing puts a successfully uploaded file before another
\* whose name carries a later timestamp: the modification time stat returned
\* for it is not the earlier one.
C6_Witness ==
    /\ resp.route = "list" /\ resp.status = 200
    /\ \E i, j \in DOMAIN resp.sortedFiles :
          /\ i < j
          /\ resp.sortedFiles[i] \in resp.known
          /\ resp.sortedFiles[j] \in resp.known
          /\ Detail(resp, resp.sortedFiles[i]).time >= Detail(resp, resp.sortedFiles[j]).time
          /\ NameTimestamp(resp.sortedFiles[i]) < NameTimestamp(resp.sortedFiles[j])

\* C7: a listing whose handler runs and whose directory is still there is
\* answered 200, also when an entry it enumerated, a file of an upload that
\* had succeeded, has been deleted before its metadata was read.
C7_ListingNever500 ==
    (/\ resp.route = "list" /\ Handled(resp) /\ PathExists(uploadDir)
     /\ \A i \in DOMAIN resp.files : resp.files[i].name \in resp.known)
        => resp.status = 200

\* C8 as claimed: every POST /delete/:filename whose handler runs on an
\* entry of uploadDir is answered with the 302 redirect, none with an error
\* status, and when it is answered the file is absent; this includes a
\* delete whose file was removed by another delete between its existence
\* check and its removal.
C8_DeleteAlwaysRedirects ==
    (resp.route = "delete" /\ Handled(resp) /\ InsideUploadDir(resp.filePath)) =>
       /\ resp.status = 302
       /\ resp.msg = "/"
       /\ ~PathExists(resp.filePath)

\* C8 as amended: every such delete is answered with the 302 redirect, none
\* with an error status, also when another delete removed the file between
\* its existence check and its removal; from the end of its check or removal
\* to its response the file is absent unless an upload has created the same
\* name again in between.
C8_RedirectsAbsentUnlessRecreated ==
    /\ (resp.route = "delete" /\ Handled(resp) /\ InsideUploadDir(resp.filePath)) =>
          /\ resp.status = 302
          /\ resp.msg = "/"
    /\ \A rec \in Records :
          (/\ rec.route = "delete" /\ Handled(rec) /\ InsideUploadDir(rec.filePath)
           /\ rec.pc \in {"redirect", "done"} /\ PathExists(rec.filePath))
             => rec.recreated

\* C8 witness: a delete of a stored file passed its existence check, found
\* the file already removed when it came to remove it, and answered 302.
C8_Witness ==
    /\ resp.route = "delete" /\ resp.status = 302
    /\ InsideUploadDir(resp.filePath)
    /\ resp.exists /\ resp.gone

\* C9: authenticated GET /info/:filename and GET /delete/:filename answer 404 exactly when
\* uploadDir has no entry with the requested base name at the time of the
\* check.
C9_NotFoundIffNoEntry ==
    (resp.route \in {"info", "confirm"} /\ Handled(resp))
        => (resp.status = 404 <=> ~resp.entry)

EntryPaths(f) == { q \in DOMAIN f : InsideUploadDir(q) }

\* C10: the set of entries of uploadDir changes only in a step of POST
\* /upload, which only adds entries, or of POST /delete/:filename, which
\* removes at most the entry called by the base name of :filename and
\* leaves every other path, inside and outside uploadDir, as it was.
C10_Frame ==
    [][DOMAIN fs' # DOMAIN fs =>
         \E r \in Slots :
            /\ req'[r] # req[r]
            /\ \/ /\ req[r].route = "upload"
                  /\ DOMAIN fs \subseteq DOMAIN fs'
                  /\ DOMAIN fs' \ DOMAIN fs \subseteq EntryPaths(fs')
               \/ /\ req[r].route = "delete"
                  /\ DOMAIN fs' \subseteq DOMAIN fs
                  /\ DOMAIN fs \ DOMAIN fs' \subseteq
                        { Append(uploadDir, req[r].fileName) } \cap EntryPaths(fs)]_vars

====
